---------------------------- MODULE Spec2Model ----------------------------
(***************************************************************************)
(* A model of db-access-utils: PostgresDB (connect, disconnect, query,     *)
(* operation, transaction), DBOperation and DBResult.                      *)
(*                                                                         *)
(* Every public method is an async function.  A call is modelled as the    *)
(* sequence of its synchronous segments: one action runs from the          *)
(* resumption of an await (the driver's answer is the action's input) to   *)
(* the next await, or to the return/throw that settles the call.           *)
(* The node-pg Pool and its clients are the environment: pool.connect()    *)
(* and client.query() answer with a value or with a cause.                 *)
(***************************************************************************)
EXTENDS Naturals, Sequences, FiniteSets

VARIABLES
  pool,    \* this.pool: "null", or the state of the Pool it refers to
           \* ("empty": no client yet, "open": has a client, "ended")
  leased,  \* the pool's clients that are checked out
  calls,   \* per caller: the method call it runs (locals, position, trace)
  db       \* how the instance was made: the configuration and its fields

vars == <<pool, leased, calls, db>>

(***************************************************************************)
(* Bounds.                                                                 *)
(***************************************************************************)
MaxOps == 2        \* longest operations list handed to transaction()
MaxClients == 2    \* clients of the pool (postgresDBConfig.maxClients)

LeaseIds == 1..MaxClients

(***************************************************************************)
(* JavaScript values.  null, undefined and arrays are told apart by type   *)
(* so that the code's tests (Array.isArray, === null, ||, .length) are     *)
(* computed as the code computes them.                                     *)
(***************************************************************************)
Null == [type |-> "null", items |-> <<>>]
Undefined == [type |-> "undefined", items |-> <<>>]
Arr(s) == [type |-> "array", items |-> s]

IsArray(v) == v.type = "array"
Num(n) == [type |-> "number", items |-> <<n>>]
Str(chars) == [type |-> "string", items |-> chars]

\* null, undefined, 0 and the empty string are falsy; arrays and objects
\* are truthy.
Truthy(v) ==
  /\ v.type \notin {"null", "undefined"}
  /\ ~(v.type = "number" /\ v.items = <<0>>)
  /\ ~(v.type = "string" /\ v.items = <<>>)
Or(a, b) == IF Truthy(a) THEN a ELSE b

\* Values a caller may give as a `parameters` option.
ParameterOptions == {Undefined, Arr(<<>>), Arr(<<"x">>)}

\* client.query(statement) has no second argument.
NoArgs == Undefined

(***************************************************************************)
(* Errors.  A raw error (driver cause, TypeError, ReferenceError, value    *)
(* thrown by a marshaller) is identified by its name; a typed error holds  *)
(* the name of the error it wraps in `cause`.                              *)
(***************************************************************************)
Causes == {"E1", "E2"}

Error(name, message, cause) == [name |-> name, message |-> message, cause |-> cause]
RawError(name) == Error(name, "", "undefined")
NoError == Error("none", "", "undefined")

DBConnectionError(message, cause) == Error("DBConnectionError", message, cause)
QueryExecutionError(message, cause) == Error("QueryExecutionError", message, cause)

NotConnectedMessage ==
  "Not connected to PostgreSQL database. Please check that that database client pool is connected by calling the connect() method."

(***************************************************************************)
(* DBResult and the node-pg result it is built from.                       *)
(***************************************************************************)
PgResults ==
  { [command |-> "SELECT", rows |-> Arr(<<"r1">>), rowCount |-> Num(1),
     fields |-> Arr(<<"id">>)],
    [command |-> "UPDATE", rows |-> Arr(<<>>), rowCount |-> Num(2),
     fields |-> Arr(<<>>)] }

\* What the driver resolves BEGIN, COMMIT and ROLLBACK with: no rows.
ControlResult(text) ==
  [command |-> text, rows |-> Arr(<<>>), rowCount |-> Num(0),
   fields |-> Arr(<<>>)]

\* The constructor keeps rows and fields only when they are arrays and
\* rowCount only when it is a number; the setters assign what they get.
DBResult(rows, rowCount, fields) ==
  [rows |-> IF IsArray(rows) THEN rows ELSE Null,
   rowCount |-> IF rowCount.type = "number" THEN rowCount ELSE Null,
   fields |-> IF IsArray(fields) THEN fields ELSE Null]

setRows(dbResult, rows) == [dbResult EXCEPT !.rows = rows]
setRowCount(dbResult, rowCount) == [dbResult EXCEPT !.rowCount = rowCount]
setFields(dbResult, fields) == [dbResult EXCEPT !.fields = fields]

\* new DBResult() with no arguments, then the three setters.
unmarshallPgResult(pgResult) ==
  setFields(
    setRowCount(
      setRows(DBResult(Undefined, Undefined, Undefined), pgResult.rows),
      pgResult.rowCount),
    pgResult.fields)

(***************************************************************************)
(* Marshallers are caller-supplied functions DBResult -> value.            *)
(* "mapRows" is the README's dbResult.rows.map(...); "firstRow" reads      *)
(* dbResult.rows[0].id and so throws a TypeError on an empty rows list.    *)
(***************************************************************************)
Marshal(marshaller, dbResult) ==
  CASE marshaller = "mapRows" ->
         [ok |-> TRUE, thrown |-> "undefined",
          value |-> [by |-> "mapRows", items |-> dbResult.rows.items]]
    [] marshaller = "firstRow" ->
         IF Len(dbResult.rows.items) = 0
           THEN [ok |-> FALSE, thrown |-> "TypeError",
                 value |-> [by |-> "firstRow", items |-> <<>>]]
           ELSE [ok |-> TRUE, thrown |-> "undefined",
                 value |-> [by |-> "firstRow", items |-> <<dbResult.rows.items[1]>>]]

(***************************************************************************)
(* DBOperation.  The constructor keeps `parameters` only when it is an     *)
(* array and `marshaller` only when it is a function.                      *)
(***************************************************************************)
NewDBOperation(statement, opts) ==
  [statement |-> statement,
   parameters |-> IF IsArray(opts.parameters) THEN opts.parameters ELSE Null,
   marshaller |-> IF opts.marshaller \in {"mapRows", "firstRow"}
                    THEN opts.marshaller ELSE "null"]

Operations ==
  { NewDBOperation("Q1", [parameters |-> Undefined, marshaller |-> "undefined"]),
    NewDBOperation("Q2", [parameters |-> Arr(<<"p">>), marshaller |-> "mapRows"]),
    NewDBOperation("Q3", [parameters |-> Arr(<<>>), marshaller |-> "firstRow"]) }

\* One element of the list handed to transaction(): {operation, parameters}.
Invocations == [operation : Operations, parameters : ParameterOptions]

OperationLists == UNION { [1..n -> Invocations] : n \in 0..MaxOps }


(***************************************************************************)
(* A call: the arguments it was given, the locals of the method, the       *)
(* await it is suspended at, the trace of what it did to the pool and its  *)
(* client, and how it settled.  JavaScript indexes operations from 0, the  *)
(* model from 1.                                                           *)
(***************************************************************************)
CallIds == {"c1", "c2"}

\* The caller of the specifications in which calls do not overlap.
SequentialCallers == {"c1"}

NoOperation == [statement |-> "", parameters |-> Null, marshaller |-> "null"]
NoPgResult ==
  [command |-> "", rows |-> Arr(<<>>), rowCount |-> Num(0), fields |-> Arr(<<>>)]

NewCall(kind) ==
  [kind |-> kind,              \* the method called
   pc |-> "idle",              \* the await the call is suspended at
   operation |-> NoOperation,  \* argument of operation()
   opts |-> [parameters |-> Undefined],  \* argument of query(), operation()
   operations |-> <<>>,        \* argument of transaction()
   statement |-> "",           \* local: statement
   parameters |-> Undefined,   \* local: parameters
   marshaller |-> "null",      \* local: marshaller
   i |-> 0,                    \* local: loop index of transaction()
   client |-> 0,               \* local: client (0: not assigned)
   results |-> <<>>,           \* local: results of transaction()
   e |-> "undefined",          \* the error caught by transaction()'s catch
   rollbackError |-> NoError,  \* the error rollback() threw (NoError: none)
   stmts |-> <<>>,             \* trace: the client.query() calls, in order
   leaseReqs |-> 0,            \* trace: number of pool.connect() calls
   leaseCause |-> "undefined", \* trace: the cause pool.connect() rejected with
   releases |-> 0,             \* trace: number of client.release() calls
   marshalled |-> <<>>,        \* trace: the DBResults handed to a marshaller
   marshalledAt |-> <<>>,      \* trace: the releases and statements made by then
   status |-> "pending",       \* "pending", "returned" or "raised"
   ret |-> <<>>,               \* returned: transaction()'s list; else <<value>>
   error |-> NoError]          \* raised: the error thrown to the caller

\* client.query(text[, args]) is called: the statement is in flight.
Issue(call, text, args) ==
  [call EXCEPT !.stmts = Append(@,
     [client |-> call.client, text |-> text, args |-> args,
      parameters |-> call.parameters,
      status |-> "inflight", result |-> NoPgResult, cause |-> "undefined",
      released |-> call.releases])]

\* The awaited client.query() resolved with pgResult.
Resolved(call, pgResult) ==
  [call EXCEPT !.stmts[Len(call.stmts)].status = "ok",
               !.stmts[Len(call.stmts)].result = pgResult]

\* The awaited client.query() rejected with cause.
Rejected(call, cause) ==
  [call EXCEPT !.stmts[Len(call.stmts)].status = "failed",
               !.stmts[Len(call.stmts)].cause = cause]

Return(call, value) ==
  [call EXCEPT !.pc = "done", !.status = "returned", !.ret = value]

Throw(call, error) ==
  [call EXCEPT !.pc = "done", !.status = "raised", !.error = error]

\* client.release()
Release(call) == [call EXCEPT !.releases = @ + 1]

\* Mutant of NotConnected: the guard tests for undefined, which the
\* constructor never assigns, so it never fires.
NotConnectedUndefined(p) == p = "undefined"

\* this.pool === null
NotConnected(p) == p = "null"

\* new Pool({max: this.maxClients}): the most clients it checks out.
PoolMax == db.instance.maxClients.items[1]

\* The client pool.connect() resolves with, when it resolves: a pool that
\* has not ended and has fewer than max clients checked out hands out its
\* first idle client, creating it if need be.
CanLease ==
  /\ pool \in {"empty", "open"}
  /\ leased # LeaseIds
  /\ Cardinality(leased) < PoolMax
NextClient == CHOOSE l \in LeaseIds \ leased : \A m \in LeaseIds \ leased : l <= m

Idle(c) == calls[c].pc = "idle"
At(c, kind, pc) == calls[c].kind = kind /\ calls[c].pc = pc

(***************************************************************************)
(* connect() and disconnect()                                              *)
(***************************************************************************)
\* connect(): this.pool = new Pool(...), then await this.pool.connect().
ConnectStart(c) ==
  /\ Idle(c)
  /\ pool' = "empty"
  /\ calls' = [calls EXCEPT ![c] =
       [NewCall("connect") EXCEPT !.pc = "awaitLease", !.leaseReqs = 1]]
  /\ UNCHANGED leased
  /\ UNCHANGED db

\* Mutant of ConnectLeased: the catch drops the pool (this.pool = null)
\* before it throws.
ConnectLeasedResetsPool(c) ==
  /\ At(c, "connect", "awaitLease")
  /\ \/ /\ CanLease
        /\ pool' = "open"
        /\ calls' = [calls EXCEPT ![c] =
             Return(Release([calls[c] EXCEPT !.client = NextClient]), <<>>)]
     \/ /\ \E e \in Causes :
             calls' = [calls EXCEPT ![c] =
               Throw([calls[c] EXCEPT !.leaseCause = e],
                     DBConnectionError("Database unavailable", e))]
        /\ pool' = "null"
  /\ UNCHANGED leased
  /\ UNCHANGED db

\* connect() resumed: client.release(), or DBConnectionError wrapping e.
ConnectLeased(c) ==
  /\ At(c, "connect", "awaitLease")
  /\ \/ /\ CanLease
        /\ pool' = "open"
        /\ calls' = [calls EXCEPT ![c] =
             Return(Release([calls[c] EXCEPT !.client = NextClient]), <<>>)]
     \/ /\ \E e \in Causes :
             calls' = [calls EXCEPT ![c] =
               Throw([calls[c] EXCEPT !.leaseCause = e],
                     DBConnectionError("Database unavailable", e))]
        /\ UNCHANGED pool
  /\ UNCHANGED leased
  /\ UNCHANGED db

\* Mutant of DisconnectStart: disconnect() also drops the pool
\* (this.pool = null).
DisconnectStartResetsPool(c) ==
  /\ Idle(c)
  /\ IF pool = "null"
       THEN /\ calls' = [calls EXCEPT ![c] =
                 Throw(NewCall("disconnect"), RawError("TypeError"))]
            /\ UNCHANGED pool
       ELSE /\ calls' = [calls EXCEPT ![c] =
                 [NewCall("disconnect") EXCEPT !.pc = "awaitEnd",
                    !.e = IF pool = "ended" THEN "PoolEndedTwice" ELSE "undefined"]]
            /\ pool' = "null"
  /\ UNCHANGED leased
  /\ UNCHANGED db

\* disconnect(): await this.pool.end().  Reading .end of null throws a
\* TypeError; ending a pool twice is rejected by the pool.
DisconnectStart(c) ==
  /\ Idle(c)
  /\ IF pool = "null"
       THEN /\ calls' = [calls EXCEPT ![c] =
                 Throw(NewCall("disconnect"), RawError("TypeError"))]
            /\ UNCHANGED pool
       ELSE /\ calls' = [calls EXCEPT ![c] =
                 [NewCall("disconnect") EXCEPT !.pc = "awaitEnd",
                    !.e = IF pool = "ended" THEN "PoolEndedTwice" ELSE "undefined"]]
            /\ pool' = "ended"
  /\ UNCHANGED leased
  /\ UNCHANGED db

DisconnectEnded(c) ==
  /\ At(c, "disconnect", "awaitEnd")
  /\ calls' = [calls EXCEPT ![c] =
       IF calls[c].e = "undefined"
         THEN Return(calls[c], <<>>)
         ELSE Throw(calls[c], RawError(calls[c].e))]
  /\ UNCHANGED <<pool, leased>>
  /\ UNCHANGED db

(***************************************************************************)
(* query(statement, opts)                                                  *)
(***************************************************************************)
\* Mutant of LeaseError: the cause is not handed to the error, as in
\* new DBConnectionError('Database unavailable').
LeaseErrorWithoutCause(e) == DBConnectionError("Database unavailable", "undefined")

\* catch (e) { throw new DBConnectionError('Database unavailable', e) } around
\* this.pool.connect() in query() and operation().
LeaseError(e) == DBConnectionError("Database unavailable", e)

\* let parameters = Array.isArray(opts.parameters) ? opts.parameters : null
QueryParameters(opts) ==
  IF IsArray(opts.parameters) THEN opts.parameters ELSE Null

\* Mutant of StatementArgs: only null is tested, so an empty list is passed.
StatementArgsPassEmpty(parameters) ==
  IF parameters = Null THEN NoArgs ELSE parameters

\* The second argument of client.query in query() and operation():
\* parameters === null || parameters.length === 0 calls without it.
StatementArgs(parameters) ==
  IF parameters = Null \/ Len(parameters.items) = 0 THEN NoArgs ELSE parameters

QueryStart(c, statement, opts) ==
  /\ Idle(c)
  /\ LET call == [NewCall("query") EXCEPT
                    !.opts = opts, !.statement = statement,
                    !.parameters = QueryParameters(opts)]
     IN calls' = [calls EXCEPT ![c] =
          IF NotConnected(pool)
            THEN Throw(call, DBConnectionError(NotConnectedMessage, "undefined"))
            ELSE [call EXCEPT !.pc = "awaitLease", !.leaseReqs = @ + 1]]
  /\ UNCHANGED <<pool, leased>>
  /\ UNCHANGED db

\* Mutant of QueryLeased: client.release() follows client.query() without
\* an await, so the client is back in the pool while the statement is in
\* flight.
QueryLeasedReleaseEarly(c) ==
  /\ At(c, "query", "awaitLease")
  /\ \/ /\ CanLease
        /\ pool' = "open"
        /\ LET call == [calls[c] EXCEPT !.client = NextClient, !.pc = "awaitQuery"]
           IN calls' = [calls EXCEPT ![c] =
                Release(Issue(call, call.statement, StatementArgs(call.parameters)))]
        /\ UNCHANGED leased
     \/ /\ \E e \in Causes :
             calls' = [calls EXCEPT ![c] =
               Throw([calls[c] EXCEPT !.leaseCause = e], LeaseError(e))]
        /\ UNCHANGED <<pool, leased>>
  /\ UNCHANGED db

\* pool.connect() answered: issue the statement, or DBConnectionError.
QueryLeased(c) ==
  /\ At(c, "query", "awaitLease")
  /\ \/ /\ CanLease
        /\ leased' = leased \cup {NextClient}
        /\ pool' = "open"
        /\ LET call == [calls[c] EXCEPT !.client = NextClient, !.pc = "awaitQuery"]
           IN calls' = [calls EXCEPT ![c] =
                Issue(call, call.statement, StatementArgs(call.parameters))]
     \/ /\ \E e \in Causes :
             calls' = [calls EXCEPT ![c] =
               Throw([calls[c] EXCEPT !.leaseCause = e], LeaseError(e))]
        /\ UNCHANGED <<pool, leased>>
  /\ UNCHANGED db

\* Mutant of QueryFinally: client.release() sits at the end of the try
\* block instead of in a finally, so a failed statement keeps the client.
QueryFinallyReleaseInTry(call, ok, pgResult, cause) ==
  IF ok
    THEN Release(Resolved(call, pgResult))
    ELSE Throw(Rejected(call, cause),
               QueryExecutionError("An error occurred executing query", cause))

\* Mutant of QueryFinally: the catch swallows the failure and the statement
\* is sent again.
QueryFinallyRetry(call, ok, pgResult, cause) ==
  IF ok
    THEN Release(Resolved(call, pgResult))
    ELSE Issue(Rejected(call, cause), call.statement, StatementArgs(call.parameters))

\* The try/catch/finally around the statement of query() and operation(),
\* entered when client.query() answers: the catch wraps the cause, the
\* finally releases the client.
QueryFinally(call, ok, pgResult, cause) ==
  IF ok
    THEN Release(Resolved(call, pgResult))
    ELSE Throw(Release(Rejected(call, cause)),
               QueryExecutionError("An error occurred executing query", cause))

QueryDone(c) ==
  /\ At(c, "query", "awaitQuery")
  /\ \/ \E r \in PgResults :
          calls' = [calls EXCEPT ![c] =
            Return(QueryFinally(calls[c], TRUE, r, "undefined"),
                   <<unmarshallPgResult(r)>>)]
     \/ \E e \in Causes :
          calls' = [calls EXCEPT ![c] = QueryFinally(calls[c], FALSE, NoPgResult, e)]
  /\ leased' = leased \ {calls[c].client}
  /\ UNCHANGED pool
  /\ UNCHANGED db

(***************************************************************************)
(* operation(operation, opts)                                              *)
(***************************************************************************)
\* Mutant of OperationParameters: the stored parameters win, as in
\* operation.parameters || opts.parameters.
OperationParametersStoredFirst(operation, opts) ==
  Or(operation.parameters, opts.parameters)

\* let parameters = Array.isArray(opts.parameters) ? opts.parameters
\*                                                 : operation.parameters
OperationParameters(operation, opts) ==
  IF IsArray(opts.parameters) THEN opts.parameters ELSE operation.parameters

OperationStart(c, operation, opts) ==
  /\ Idle(c)
  /\ LET call == [NewCall("operation") EXCEPT
                    !.operation = operation, !.opts = opts,
                    !.statement = operation.statement,
                    !.parameters = OperationParameters(operation, opts),
                    !.marshaller = operation.marshaller]
     IN calls' = [calls EXCEPT ![c] =
          IF NotConnected(pool)
            THEN Throw(call, DBConnectionError(NotConnectedMessage, "undefined"))
            ELSE [call EXCEPT !.pc = "awaitLease", !.leaseReqs = @ + 1]]
  /\ UNCHANGED <<pool, leased>>
  /\ UNCHANGED db

OperationLeased(c) ==
  /\ At(c, "operation", "awaitLease")
  /\ \/ /\ CanLease
        /\ leased' = leased \cup {NextClient}
        /\ pool' = "open"
        /\ LET call == [calls[c] EXCEPT !.client = NextClient, !.pc = "awaitQuery"]
           IN calls' = [calls EXCEPT ![c] =
                Issue(call, call.statement, StatementArgs(call.parameters))]
     \/ /\ \E e \in Causes :
             calls' = [calls EXCEPT ![c] =
               Throw([calls[c] EXCEPT !.leaseCause = e], LeaseError(e))]
        /\ UNCHANGED <<pool, leased>>
  /\ UNCHANGED db

\* Mutant of OperationReturn: the marshaller is not applied.
OperationReturnRaw(call, dbResult) == Return(call, <<dbResult>>)

\* After the try/finally of operation(): if (marshaller) return
\* marshaller(dbResult); return dbResult.  What the marshaller throws is
\* not caught.
OperationReturn(call, dbResult) ==
  IF call.marshaller # "null"
    THEN LET m == Marshal(call.marshaller, dbResult)
             called == [call EXCEPT !.marshalled = Append(@, dbResult),
                                  !.marshalledAt = Append(@,
                                    [releases |-> call.releases,
                                     stmts |-> Len(call.stmts)])]
         IN IF m.ok THEN Return(called, <<m.value>>)
                    ELSE Throw(called, RawError(m.thrown))
    ELSE Return(call, <<dbResult>>)

OperationDone(c) ==
  /\ At(c, "operation", "awaitQuery")
  /\ \/ \E r \in PgResults :
          calls' = [calls EXCEPT ![c] =
            OperationReturn(QueryFinally(calls[c], TRUE, r, "undefined"),
                            unmarshallPgResult(r))]
     \/ \E e \in Causes :
          calls' = [calls EXCEPT ![c] = QueryFinally(calls[c], FALSE, NoPgResult, e)]
  /\ leased' = leased \ {calls[c].client}
  /\ UNCHANGED pool
  /\ UNCHANGED db

(***************************************************************************)
(* transaction(operations)                                                 *)
(***************************************************************************)
\* parameters = op.parameters; parameters = operation.parameters || parameters
TransactionParameters(operation, parameters) ==
  Or(operation.parameters, parameters)

\* The second argument of client.query in transaction():
\* Array.isArray(parameters) && parameters.length > 0 calls with it.
TransactionArgs(parameters) ==
  IF IsArray(parameters) /\ Len(parameters.items) > 0 THEN parameters ELSE NoArgs

\* Mutant of TransactionLoop: the statement of the next operation is
\* dispatched together with the current one (the await is dropped).
TransactionLoopDispatchTwo(call) ==
  IF call.i <= Len(call.operations)
    THEN LET op == call.operations[call.i]
             next == [call EXCEPT
                        !.pc = "awaitOp",
                        !.statement = op.operation.statement,
                        !.parameters =
                           TransactionParameters(op.operation, op.parameters),
                        !.marshaller = op.operation.marshaller]
             first == Issue(next, next.statement, TransactionArgs(next.parameters))
         IN IF call.i < Len(call.operations)
              THEN Issue(first, call.operations[call.i + 1].operation.statement,
                         TransactionArgs(next.parameters))
              ELSE first
    ELSE Issue([call EXCEPT !.pc = "awaitCommit"], "COMMIT", NoArgs)

\* Mutant of TransactionLoop: an empty list returns at once, as in
\* if (operations.length === 0) return results, leaving out COMMIT.
TransactionLoopReturnsEmpty(call) ==
  IF Len(call.operations) = 0
    THEN Return(call, call.results)
    ELSE IF call.i <= Len(call.operations)
      THEN LET op == call.operations[call.i]
               next == [call EXCEPT
                          !.pc = "awaitOp",
                          !.statement = op.operation.statement,
                          !.parameters =
                             TransactionParameters(op.operation, op.parameters),
                          !.marshaller = op.operation.marshaller]
           IN Issue(next, next.statement, TransactionArgs(next.parameters))
      ELSE Issue([call EXCEPT !.pc = "awaitCommit"], "COMMIT", NoArgs)

\* Mutant of TransactionLoop: the loop stops one operation early (i <
\* operations.length - 1) and commits.
TransactionLoopCommitEarly(call) ==
  IF call.i < Len(call.operations)
    THEN LET op == call.operations[call.i]
             next == [call EXCEPT
                        !.pc = "awaitOp",
                        !.statement = op.operation.statement,
                        !.parameters =
                           TransactionParameters(op.operation, op.parameters),
                        !.marshaller = op.operation.marshaller]
         IN Issue(next, next.statement, TransactionArgs(next.parameters))
    ELSE Issue([call EXCEPT !.pc = "awaitCommit"], "COMMIT", NoArgs)

\* The head of the for loop: with an operation left, set the locals and
\* issue its statement; after the last one, issue COMMIT.
TransactionLoop(call) ==
  IF call.i <= Len(call.operations)
    THEN LET op == call.operations[call.i]
             next == [call EXCEPT
                        !.pc = "awaitOp",
                        !.statement = op.operation.statement,
                        !.parameters =
                           TransactionParameters(op.operation, op.parameters),
                        !.marshaller = op.operation.marshaller]
         IN Issue(next, next.statement, TransactionArgs(next.parameters))
    ELSE Issue([call EXCEPT !.pc = "awaitCommit"], "COMMIT", NoArgs)

\* Mutant of TransactionCatch: the catch rethrows without rolling back.
TransactionCatchNoRollback(call, e) ==
  Throw([call EXCEPT !.e = e],
        QueryExecutionError(
          "An error occurred executing a database transaction", e))

\* Mutant of TransactionCatch: the catch releases the client and then
\* rolls back on it.
TransactionCatchReleaseFirst(call, e) ==
  Issue(Release([call EXCEPT !.pc = "awaitRollbackQuery", !.e = e]), "ROLLBACK", NoArgs)

\* catch (e) { await rollback() ...: the ROLLBACK statement is issued.
TransactionCatch(call, e) ==
  Issue([call EXCEPT !.pc = "awaitRollbackQuery", !.e = e], "ROLLBACK", NoArgs)

\* Mutant of TransactionResult: the result is put at the front of the list
\* (unshift instead of push).
TransactionResultUnshift(call, pgResult) ==
  LET dbResult == unmarshallPgResult(pgResult)
  IN IF call.marshaller # "null"
       THEN LET m == Marshal(call.marshaller, dbResult)
                called == [call EXCEPT !.marshalled = Append(@, dbResult),
                                  !.marshalledAt = Append(@,
                                    [releases |-> call.releases,
                                     stmts |-> Len(call.stmts)])]
            IN IF m.ok
                 THEN TransactionLoop([called EXCEPT
                        !.results = <<m.value>> \o @, !.i = @ + 1])
                 ELSE TransactionCatch(called, m.thrown)
       ELSE TransactionLoop([call EXCEPT
              !.results = <<dbResult>> \o @, !.i = @ + 1])

\* Mutant of TransactionResult: what the marshaller throws is swallowed
\* and the loop goes on to the next operation.
TransactionResultSkipThrow(call, pgResult) ==
  LET dbResult == unmarshallPgResult(pgResult)
  IN IF call.marshaller # "null"
       THEN LET m == Marshal(call.marshaller, dbResult)
                called == [call EXCEPT !.marshalled = Append(@, dbResult),
                                  !.marshalledAt = Append(@,
                                    [releases |-> call.releases,
                                     stmts |-> Len(call.stmts)])]
            IN IF m.ok
                 THEN TransactionLoop([called EXCEPT
                        !.results = Append(@, m.value), !.i = @ + 1])
                 ELSE TransactionLoop([called EXCEPT
                        !.results = Append(@, dbResult), !.i = @ + 1])
       ELSE TransactionLoop([call EXCEPT
              !.results = Append(@, dbResult), !.i = @ + 1])

\* The statement of operation i resolved: normalise, marshal, push, loop.
\* A throw of the marshaller is inside the try block.
TransactionResult(call, pgResult) ==
  LET dbResult == unmarshallPgResult(pgResult)
  IN IF call.marshaller # "null"
       THEN LET m == Marshal(call.marshaller, dbResult)
                called == [call EXCEPT !.marshalled = Append(@, dbResult),
                                  !.marshalledAt = Append(@,
                                    [releases |-> call.releases,
                                     stmts |-> Len(call.stmts)])]
            IN IF m.ok
                 THEN TransactionLoop([called EXCEPT
                        !.results = Append(@, m.value), !.i = @ + 1])
                 ELSE TransactionCatch(called, m.thrown)
       ELSE TransactionLoop([call EXCEPT
              !.results = Append(@, dbResult), !.i = @ + 1])

\* The error of the catch block once rollback() has settled: rollback()
\* rethrows a failure of ROLLBACK wrapped, else the catch wraps e.
TransactionError(call) ==
  IF call.rollbackError = NoError
    THEN QueryExecutionError(
           "An error occurred executing a database transaction", call.e)
    ELSE call.rollbackError

\* finally { client.release() }
TransactionFinally(call) == Release(call)

TransactionStart(c, operations) ==
  /\ Idle(c)
  /\ LET call == [NewCall("transaction") EXCEPT !.operations = operations]
     IN calls' = [calls EXCEPT ![c] =
          IF NotConnected(pool)
            THEN Throw(call, DBConnectionError(NotConnectedMessage, "undefined"))
            ELSE [call EXCEPT !.pc = "awaitLease", !.leaseReqs = @ + 1]]
  /\ UNCHANGED <<pool, leased>>
  /\ UNCHANGED db

\* pool.connect() answered: issue BEGIN, or throw.  The catch names
\* DatabaseConnectionError, which no module defines: evaluating it throws
\* a ReferenceError.
TransactionLeased(c) ==
  /\ At(c, "transaction", "awaitLease")
  /\ \/ /\ CanLease
        /\ leased' = leased \cup {NextClient}
        /\ pool' = "open"
        /\ calls' = [calls EXCEPT ![c] =
             Issue([calls[c] EXCEPT !.client = NextClient, !.pc = "awaitBegin"],
                   "BEGIN", NoArgs)]
     \/ /\ \E e \in Causes :
             calls' = [calls EXCEPT ![c] =
               Throw([calls[c] EXCEPT !.leaseCause = e], RawError("ReferenceError"))]
        /\ UNCHANGED <<pool, leased>>
  /\ UNCHANGED db

\* Mutant of TransactionBegun: after BEGIN the call asks the pool for
\* another client for its operations while it holds the first.
TransactionBegunNestedLease(c) ==
  /\ At(c, "transaction", "awaitBegin")
  /\ \/ calls' = [calls EXCEPT ![c] =
          [Resolved(calls[c], ControlResult("BEGIN")) EXCEPT
             !.pc = "awaitLease", !.leaseReqs = @ + 1]]
     \/ \E e \in Causes :
          calls' = [calls EXCEPT ![c] = TransactionCatch(Rejected(calls[c], e), e)]
  /\ UNCHANGED <<pool, leased>>
  /\ UNCHANGED db

TransactionBegun(c) ==
  /\ At(c, "transaction", "awaitBegin")
  /\ \/ calls' = [calls EXCEPT ![c] =
          TransactionLoop([Resolved(calls[c], ControlResult("BEGIN")) EXCEPT !.i = 1])]
     \/ \E e \in Causes :
          calls' = [calls EXCEPT ![c] = TransactionCatch(Rejected(calls[c], e), e)]
  /\ UNCHANGED <<pool, leased>>
  /\ UNCHANGED db

TransactionOpDone(c) ==
  /\ At(c, "transaction", "awaitOp")
  /\ \/ \E r \in PgResults :
          calls' = [calls EXCEPT ![c] = TransactionResult(Resolved(calls[c], r), r)]
     \/ \E e \in Causes :
          calls' = [calls EXCEPT ![c] = TransactionCatch(Rejected(calls[c], e), e)]
  /\ UNCHANGED <<pool, leased>>
  /\ UNCHANGED db

TransactionCommitted(c) ==
  /\ At(c, "transaction", "awaitCommit")
  /\ \/ /\ LET call == TransactionFinally(Resolved(calls[c], ControlResult("COMMIT")))
           IN calls' = [calls EXCEPT ![c] = Return(call, call.results)]
        /\ leased' = leased \ {calls[c].client}
     \/ /\ \E e \in Causes :
             calls' = [calls EXCEPT ![c] = TransactionCatch(Rejected(calls[c], e), e)]
        /\ UNCHANGED leased
  /\ UNCHANGED pool
  /\ UNCHANGED db

\* const rollback = async () => { try { await client.query('ROLLBACK') }
\* catch (e) { throw new QueryExecutionError(...) } }: the driver answers
\* ROLLBACK and rollback() returns or throws. The client stays checked out.
rollback(c) ==
  /\ At(c, "transaction", "awaitRollbackQuery")
  /\ \/ calls' = [calls EXCEPT ![c] =
            [Resolved(calls[c], ControlResult("ROLLBACK")) EXCEPT
               !.pc = "awaitRollback"]]
     \/ \E e \in Causes :
          calls' = [calls EXCEPT ![c] =
            [Rejected(calls[c], e) EXCEPT
               !.pc = "awaitRollback",
               !.rollbackError = QueryExecutionError(
                 "Error occurred while rolling back DB transaction", e)]]
  /\ UNCHANGED <<pool, leased>>
  /\ UNCHANGED db

\* catch (e) { await rollback(); throw new QueryExecutionError(...) } finally
\* { client.release() }: the continuation of `await rollback()`. It runs in a
\* later turn than the one in which rollback() settled, so other calls'
\* continuations can run in between; the client is still checked out until
\* then. An error thrown by rollback() propagates in place of the wrapper
\* around the caught error.
TransactionRolledBack(c) ==
  /\ At(c, "transaction", "awaitRollback")
  /\ calls' = [calls EXCEPT ![c] =
       Throw(TransactionFinally(calls[c]), TransactionError(calls[c]))]
  /\ leased' = leased \ {calls[c].client}
  /\ UNCHANGED pool
  /\ UNCHANGED db

\* The caller's await of a settled call ends: it has the value or the error
\* and is free to make its next call.
Settle(c) ==
  /\ calls[c].pc = "done"
  /\ calls' = [calls EXCEPT ![c] = NewCall("none")]
  /\ UNCHANGED <<pool, leased>>
  /\ UNCHANGED db

(***************************************************************************)
(* PostgresDBConfig, the PostgresDB constructor and DBFactory.createDB.    *)
(* Strings that the code inspects are sequences of characters.             *)
(***************************************************************************)
DefaultMaxClients == 10
DefaultIdleTimeoutMillis == 10000
DefaultConnectionTimeoutMillis == 0

\* What a caller may give for one pool tunable: nothing, 0, or a positive
\* number.
TunableValues == {Undefined, Num(0), Num(5)}

\* The opts argument of the PostgresDBConfig constructor: an object with
\* any of the three tunables, or no argument at all (type "undefined").
OptsObjects ==
  [type : {"object"}, items : {<<>>}, maxClients : TunableValues,
   idleTimeoutMillis : TunableValues, connectionTimeoutMillis : TunableValues]
NoOpts ==
  [type |-> "undefined", items |-> <<>>, maxClients |-> Undefined,
   idleTimeoutMillis |-> Undefined, connectionTimeoutMillis |-> Undefined]
OptsSet == OptsObjects \cup {NoOpts}

\* opts && opts.field
OptsAnd(opts, value) == IF Truthy(opts) THEN value ELSE opts

NewDBConfig(vendor, hostname, port, database, username, password) ==
  [vendor |-> vendor, hostname |-> hostname, port |-> port,
   database |-> database, username |-> username, password |-> password]

NewPostgresDBConfig(hostname, port, database, username, password, opts) ==
  LET super == NewDBConfig(Str(<<"p", "o", "s", "t", "g", "r", "e", "s">>),
                           hostname, port, database, username, password)
  IN [vendor |-> super.vendor, hostname |-> super.hostname,
      port |-> super.port, database |-> super.database,
      username |-> super.username, password |-> super.password,
      maxClients |->
        Or(OptsAnd(opts, opts.maxClients), Num(DefaultMaxClients)),
      idleTimeoutMillis |->
        Or(OptsAnd(opts, opts.idleTimeoutMillis), Num(DefaultIdleTimeoutMillis)),
      connectionTimeoutMillis |->
        Or(OptsAnd(opts, opts.connectionTimeoutMillis),
           Num(DefaultConnectionTimeoutMillis))]

\* The fields the DB and PostgresDB constructors copy from the
\* configuration; this.pool = null is the variable pool.
NewPostgresDB(postgresDBConfig) ==
  [hostname |-> postgresDBConfig.hostname, port |-> postgresDBConfig.port,
   database |-> postgresDBConfig.database,
   username |-> postgresDBConfig.username,
   password |-> postgresDBConfig.password,
   maxClients |-> postgresDBConfig.maxClients,
   idleTimeoutMillis |-> postgresDBConfig.idleTimeoutMillis,
   connectionTimeoutMillis |-> postgresDBConfig.connectionTimeoutMillis]

DBFactoryError(message, cause) == Error("DBFactoryError", message, cause)

TypeOf(v) == IF v.type \in {"null", "array"} THEN "object" ELSE v.type

UpperCase ==
  <<"A", "B", "C", "D", "E", "F", "G", "H", "I", "J", "K", "L", "M",
    "N", "O", "P", "Q", "R", "S", "T", "U", "V", "W", "X", "Y", "Z">>
LowerCase ==
  <<"a", "b", "c", "d", "e", "f", "g", "h", "i", "j", "k", "l", "m",
    "n", "o", "p", "q", "r", "s", "t", "u", "v", "w", "x", "y", "z">>

ToLowerCaseIdentity(s) == s

\* String.prototype.toLowerCase on a string of ASCII characters.
ToLowerCase(s) ==
  Str([k \in 1..Len(s.items) |->
        IF \E n \in 1..Len(UpperCase) : UpperCase[n] = s.items[k]
          THEN LowerCase[CHOOSE n \in 1..Len(UpperCase) :
                           UpperCase[n] = s.items[k]]
          ELSE s.items[k]])

\* The connection fields of every configuration the model builds.
Connection ==
  [hostname |-> Str(<<"h">>), port |-> Num(5432), database |-> Str(<<"d">>),
   username |-> Str(<<"u">>), password |-> Str(<<"w">>)]

\* What a caller may give as config.vendor: nothing, a number, the
\* supported vendor in four letter cases, other vendors, the empty string.
Vendors ==
  { Undefined, Num(1), Str(<<>>),
    Str(<<"p", "o", "s", "t", "g", "r", "e", "s">>),
    Str(<<"P", "o", "s", "t", "g", "r", "e", "s">>),
    Str(<<"P", "O", "S", "T", "G", "R", "E", "S">>),
    Str(<<"p", "O", "s", "T", "g", "R", "e", "S">>),
    Str(<<"p", "o", "s", "t", "g", "r", "e", "s", "q", "l">>),
    Str(<<"m", "y", "s", "q", "l">>) }

\* The config argument of createDB.
Configs ==
  [vendor : Vendors, hostname : {Connection.hostname},
   port : {Connection.port}, database : {Connection.database},
   username : {Connection.username}, password : {Connection.password},
   maxClients : TunableValues, idleTimeoutMillis : TunableValues,
   connectionTimeoutMillis : TunableValues]

NoConfig ==
  [vendor |-> Undefined, hostname |-> Undefined, port |-> Undefined,
   database |-> Undefined, username |-> Undefined, password |-> Undefined,
   maxClients |-> Undefined, idleTimeoutMillis |-> Undefined,
   connectionTimeoutMillis |-> Undefined]

NoInstance ==
  [hostname |-> Undefined, port |-> Undefined, database |-> Undefined,
   username |-> Undefined, password |-> Undefined, maxClients |-> Undefined,
   idleTimeoutMillis |-> Undefined, connectionTimeoutMillis |-> Undefined]

\* Nothing constructed yet.
NoDB ==
  [kind |-> "none", by |-> "none", vendor |-> Undefined, opts |-> NoOpts,
   config |-> NoConfig, instance |-> NoInstance, error |-> NoError]

createPostgresDB(config) ==
  LET postgresDBConfig ==
        NewPostgresDBConfig(config.hostname, config.port, config.database,
          config.username, config.password,
          [type |-> "object", items |-> <<>>,
           maxClients |-> config.maxClients,
           idleTimeoutMillis |-> config.idleTimeoutMillis,
           connectionTimeoutMillis |-> config.connectionTimeoutMillis])
  IN NewPostgresDB(postgresDBConfig)

\* The outcome of createDB(config): the instance returned or the error
\* thrown.
createDB(config) ==
  IF TypeOf(config.vendor) # "string"
    THEN [ok |-> FALSE, instance |-> NoInstance,
          error |-> DBFactoryError(
            "The config argument must define a \"vendor\" string property",
            "undefined")]
    ELSE IF ToLowerCase(config.vendor) =
              Str(<<"p", "o", "s", "t", "g", "r", "e", "s">>)
      THEN [ok |-> TRUE, instance |-> createPostgresDB(config),
            error |-> NoError]
      ELSE [ok |-> FALSE, instance |-> NoInstance,
            error |-> DBFactoryError(
              "Failed to create DB instance. Unsupported vendor specified in configuration",
              "undefined")]

\* new PostgresDBConfig(hostname, port, database, username, password, opts)
NewConfig(opts) ==
  /\ db.kind # "db"
  /\ db' = [NoDB EXCEPT !.kind = "config", !.by = "new", !.opts = opts,
              !.config = NewPostgresDBConfig(Connection.hostname,
                Connection.port, Connection.database, Connection.username,
                Connection.password, opts)]
  /\ UNCHANGED <<pool, leased, calls>>

\* new PostgresDB(postgresDBConfig)
Construct ==
  /\ db.kind = "config"
  /\ db' = [db EXCEPT !.kind = "db", !.instance = NewPostgresDB(db.config)]
  /\ pool' = "null"
  /\ UNCHANGED <<leased, calls>>

\* DBFactory.createDB(config)
CreateDB(config) ==
  LET made == createDB(config)
  IN /\ db.kind # "db"
     /\ db' = [NoDB EXCEPT !.kind = IF made.ok THEN "db" ELSE "error",
                 !.by = "createDB", !.vendor = config.vendor,
                 !.opts = [type |-> "object", items |-> <<>>,
                           maxClients |-> config.maxClients,
                           idleTimeoutMillis |-> config.idleTimeoutMillis,
                           connectionTimeoutMillis |->
                             config.connectionTimeoutMillis],
                 !.instance = made.instance, !.error = made.error]
     /\ pool' = IF made.ok THEN "null" ELSE pool
     /\ UNCHANGED <<leased, calls>>

(***************************************************************************)
(* The instance as constructed (this.pool = null), used by one caller that *)
(* awaits each call before making the next.                                *)
(***************************************************************************)
Init ==
  /\ pool = "null"
  /\ leased = {}
  /\ calls = [c \in CallIds |-> NewCall("none")]
  /\ db = [NoDB EXCEPT !.kind = "db", !.by = "new",
             !.config = NewPostgresDBConfig(Connection.hostname,
               Connection.port, Connection.database, Connection.username,
               Connection.password, NoOpts),
             !.instance = NewPostgresDB(NewPostgresDBConfig(
               Connection.hostname, Connection.port, Connection.database,
               Connection.username, Connection.password, NoOpts))]

Next ==
  \E c \in SequentialCallers :
    \/ ConnectStart(c)
    \/ ConnectLeased(c)
    \/ DisconnectStart(c)
    \/ DisconnectEnded(c)
    \/ \E opts \in [parameters : ParameterOptions] : QueryStart(c, "Q0", opts)
    \/ QueryLeased(c)
    \/ QueryDone(c)
    \/ \E operation \in Operations, opts \in [parameters : ParameterOptions] :
         OperationStart(c, operation, opts)
    \/ OperationLeased(c)
    \/ OperationDone(c)
    \/ \E operations \in OperationLists : TransactionStart(c, operations)
    \/ TransactionLeased(c)
    \/ TransactionBegun(c)
    \/ TransactionOpDone(c)
    \/ TransactionCommitted(c)
    \/ rollback(c)
    \/ TransactionRolledBack(c)
    \/ Settle(c)

Spec == Init /\ [][Next]_vars

(***************************************************************************)
(* Making the instance: configurations are built and createDB is called    *)
(* until an instance exists; the instance is then used by one caller, with *)
(* one input per method.                                                   *)
(***************************************************************************)
FactoryInit ==
  /\ pool = "none"
  /\ leased = {}
  /\ calls = [c \in CallIds |-> NewCall("none")]
  /\ db = NoDB

FactoryOperation ==
  NewDBOperation("Q1", [parameters |-> Undefined, marshaller |-> "undefined"])

FactoryNext ==
  \/ \E opts \in OptsSet : NewConfig(opts)
  \/ Construct
  \/ \E config \in Configs : CreateDB(config)
  \/ /\ db.kind = "db"
     /\ \E c \in SequentialCallers :
          \/ ConnectStart(c)
          \/ ConnectLeased(c)
          \/ QueryStart(c, "Q0", [parameters |-> Undefined])
          \/ QueryLeased(c)
          \/ QueryDone(c)
          \/ OperationStart(c, FactoryOperation, [parameters |-> Undefined])
          \/ OperationLeased(c)
          \/ OperationDone(c)
          \/ TransactionStart(c,
               <<[operation |-> FactoryOperation, parameters |-> Undefined]>>)
          \/ TransactionLeased(c)
          \/ TransactionBegun(c)
          \/ TransactionOpDone(c)
          \/ TransactionCommitted(c)
          \/ rollback(c)
          \/ TransactionRolledBack(c)
          \/ Settle(c)

FactorySpec == FactoryInit /\ [][FactoryNext]_vars

(***************************************************************************)
(* Overlapping calls: two callers use one instance whose pool holds one or *)
(* two clients, each caller with one input per method.  connect() is       *)
(* called once, on the instance as constructed.                            *)
(***************************************************************************)
ConcurrentMaxClients == {Num(1), Num(2)}

ConcurrentInit ==
  /\ pool = "null"
  /\ leased = {}
  /\ calls = [c \in CallIds |-> NewCall("none")]
  /\ \E max \in ConcurrentMaxClients :
       LET opts == [NoOpts EXCEPT !.type = "object", !.maxClients = max]
           config == NewPostgresDBConfig(Connection.hostname, Connection.port,
                       Connection.database, Connection.username,
                       Connection.password, opts)
       IN db = [NoDB EXCEPT !.kind = "db", !.by = "new", !.opts = opts,
                  !.config = config, !.instance = NewPostgresDB(config)]

ConcurrentNext ==
  \E c \in CallIds :
    \/ pool = "null" /\ ConnectStart(c)
    \/ ConnectLeased(c)
    \/ QueryStart(c, "Q0", [parameters |-> Undefined])
    \/ QueryLeased(c)
    \/ QueryDone(c)
    \/ OperationStart(c, FactoryOperation, [parameters |-> Undefined])
    \/ OperationLeased(c)
    \/ OperationDone(c)
    \/ TransactionStart(c,
         <<[operation |-> FactoryOperation, parameters |-> Undefined]>>)
    \/ TransactionLeased(c)
    \/ TransactionBegun(c)
    \/ TransactionOpDone(c)
    \/ TransactionCommitted(c)
    \/ rollback(c)
    \/ TransactionRolledBack(c)
    \/ Settle(c)

ConcurrentSpec == ConcurrentInit /\ [][ConcurrentNext]_vars

\* The driver answers: every client.query() a call awaits settles, and
\* every pool.connect() a call awaits is answered once the pool has a
\* client to give (the pool serves its waiting requests in turn). The
\* event loop runs the continuation of a settled `await rollback()`.
StatementAnswered(c) ==
  \/ QueryDone(c)
  \/ OperationDone(c)
  \/ TransactionBegun(c)
  \/ TransactionOpDone(c)
  \/ TransactionCommitted(c)
  \/ rollback(c)

LeaseAnswered(c) ==
  /\ CanLease
  /\ \/ ConnectLeased(c)
     \/ QueryLeased(c)
     \/ OperationLeased(c)
     \/ TransactionLeased(c)

ConcurrentFairness ==
  \A c \in CallIds :
    /\ WF_vars(StatementAnswered(c))
    /\ SF_vars(LeaseAnswered(c))
    /\ WF_vars(TransactionRolledBack(c))

ConcurrentFairSpec == ConcurrentSpec /\ ConcurrentFairness

(***************************************************************************)
(* Properties.                                                             *)
(***************************************************************************)
ControlStatements == {"BEGIN", "COMMIT", "ROLLBACK"}

\* The texts of the statements a call issued on its client, in order.
Issued(call) == [k \in 1..Len(call.stmts) |-> call.stmts[k].text]

\* The statement of operation k (1-based) of a transaction was issued and failed.
OperationFailed(call, k) ==
  /\ call.kind = "transaction"
  /\ k \in 1..Len(call.operations)
  /\ Len(call.stmts) >= k + 1
  /\ call.stmts[k + 1].text \notin ControlStatements
  /\ call.stmts[k + 1].status = "failed"

\* The last marshaller invocation of a call threw.
MarshallerThrew(call) ==
  /\ Len(call.marshalled) > 0
  /\ ~Marshal(call.marshaller, call.marshalled[Len(call.marshalled)]).ok

UsesLease(call) == call.kind \in {"query", "operation", "transaction"}

\* C1: transaction atomicity.  When the statement of operation k fails, the
\* statements issued are exactly BEGIN, operations 1..k in input order and
\* one ROLLBACK (no later operation, no COMMIT); the call raises a
\* QueryExecutionError and returns no result list.
TransactionAtomicity ==
  \A c \in CallIds : \A k \in 1..Len(calls[c].operations) :
    LET call == calls[c]
    IN OperationFailed(call, k) =>
         /\ Issued(call) =
              <<"BEGIN">>
              \o [j \in 1..k |-> call.operations[j].operation.statement]
              \o <<"ROLLBACK">>
         /\ call.status # "returned"
         /\ call.ret = <<>>
         /\ call.pc = "done" =>
              /\ call.status = "raised"
              /\ call.error.name = "QueryExecutionError"

\* Witness of C1: operation 2 of 2 failed after operation 1 produced a
\* result, and the call has settled.
TransactionAtomicityWitness ==
  \E c \in CallIds :
    /\ OperationFailed(calls[c], 2)
    /\ Len(calls[c].results) = 1
    /\ calls[c].pc = "done"

\* C2: lease hygiene.  A query(), operation() or transaction() call that
\* acquired a client holds it until it settles and has released it exactly
\* once when it settles, on every exit path; a call that acquired none
\* releases nothing.
LeaseHygiene ==
  \A c \in CallIds :
    LET call == calls[c]
    IN UsesLease(call) =>
         /\ call.client = 0 => call.releases = 0
         /\ (call.client # 0 /\ call.pc # "done") =>
              call.releases = 0 /\ call.client \in leased
         /\ (call.client # 0 /\ call.pc = "done") =>
              call.releases = 1 /\ call.client \notin leased

\* Witness of C2: a transaction whose statement failed and whose ROLLBACK
\* failed too has settled.
LeaseHygieneWitness ==
  \E c \in CallIds :
    LET call == calls[c]
    IN /\ OperationFailed(call, 1)
       /\ call.pc = "done"
       /\ call.stmts[Len(call.stmts)].text = "ROLLBACK"
       /\ call.stmts[Len(call.stmts)].status = "failed"
       /\ call.releases = 1

\* C3: when the pool is connected and acquiring the client fails,
\* transaction() fails with a DBConnectionError and issues no statement.
TransactionLeaseFailureIsConnectionError ==
  \A c \in CallIds :
    LET call == calls[c]
    IN (call.kind = "transaction" /\ call.pc = "done"
          /\ call.leaseReqs = 1 /\ call.client = 0) =>
         /\ call.status = "raised"
         /\ call.error.name = "DBConnectionError"
         /\ call.stmts = <<>>

\* C4: parameter precedence in transaction().  A statement whose invocation
\* gives a parameters override is run with the override (passed when it is
\* non-empty), never with the operation's stored parameters; the stored
\* parameters are used only when no override is given.
TransactionOverridePrecedence ==
  \A c \in CallIds :
    LET call == calls[c]
    IN call.kind = "transaction" =>
         \A k \in 1..Len(call.operations) :
           (Len(call.stmts) >= k + 1
              /\ call.stmts[k + 1].text \notin ControlStatements) =>
             LET override == call.operations[k].parameters
                 stored == call.operations[k].operation.parameters
                 effective == IF IsArray(override) THEN override ELSE stored
             IN call.stmts[k + 1].args =
                  IF IsArray(effective) /\ Len(effective.items) > 0
                    THEN effective ELSE NoArgs

\* C5: parameter precedence in operation().  With an override O2 (any
\* array, the empty one included) the statement is invoked with O2 and
\* never with the stored parameters P; without one it is invoked with P.
OperationOverridePrecedence ==
  \A c \in CallIds :
    LET call == calls[c]
        O2 == call.opts.parameters
        P == call.operation.parameters
    IN (call.kind = "operation" /\ Len(call.stmts) >= 1) =>
         /\ call.stmts[1].text = call.operation.statement
         /\ IsArray(O2) =>
              /\ call.parameters = O2
              /\ call.stmts[1].args = IF Len(O2.items) > 0 THEN O2 ELSE NoArgs
              /\ (IsArray(P) /\ P # O2) => call.stmts[1].args # P
         /\ ~IsArray(O2) =>
              /\ call.parameters = P
              /\ call.stmts[1].args =
                   IF IsArray(P) /\ Len(P.items) > 0 THEN P ELSE NoArgs

\* Witness of C5: an operation with stored parameters was run with an
\* empty override, so its statement was issued without parameters.
OperationOverridePrecedenceWitness ==
  \E c \in CallIds :
    LET call == calls[c]
    IN /\ call.kind = "operation"
       /\ call.pc = "done"
       /\ call.operation.parameters = Arr(<<"p">>)
       /\ call.opts.parameters = Arr(<<>>)
       /\ Len(call.stmts) = 1
       /\ call.stmts[1].args = NoArgs

\* C6: when the statement of operation() succeeds and the marshaller
\* throws, the call raises a DBResultMarshallerError whose cause is the
\* thrown value.
OperationMarshallerErrorTyped ==
  \A c \in CallIds :
    LET call == calls[c]
    IN (call.kind = "operation" /\ call.pc = "done" /\ MarshallerThrew(call)) =>
         /\ call.status = "raised"
         /\ call.error.name = "DBResultMarshallerError"
         /\ call.error.cause =
              Marshal(call.marshaller, call.marshalled[Len(call.marshalled)]).thrown

\* C7: when the marshaller of operation k of a transaction throws, the
\* call raises a DBResultMarshallerError whose cause is the thrown value.
TransactionMarshallerErrorTyped ==
  \A c \in CallIds :
    LET call == calls[c]
    IN (call.kind = "transaction" /\ call.pc = "done" /\ MarshallerThrew(call)) =>
         /\ call.status = "raised"
         /\ call.error.name = "DBResultMarshallerError"
         /\ call.error.cause =
              Marshal(call.marshaller, call.marshalled[Len(call.marshalled)]).thrown

\* C8: when a statement of a transaction fails with E1 and the ROLLBACK
\* then fails with E2, the error raised is a QueryExecutionError wrapping
\* E2 from which E1 is still observable.  The raised error refers to
\* another error only through its cause.
RollbackFailureKeepsOriginalCause ==
  \A c \in CallIds :
    LET call == calls[c]
        last == call.stmts[Len(call.stmts)]
    IN (call.kind = "transaction" /\ call.pc = "done" /\ Len(call.stmts) >= 2
          /\ last.text = "ROLLBACK" /\ last.status = "failed"
          /\ call.stmts[Len(call.stmts) - 1].status = "failed") =>
         LET E1 == call.stmts[Len(call.stmts) - 1].cause
             E2 == last.cause
         IN /\ call.status = "raised"
            /\ call.error.name = "QueryExecutionError"
            /\ call.error.cause = E2
            /\ E1 \in {call.error.cause}

\* C9: a failing BEGIN or COMMIT is handled like a failing operation: after
\* a failed BEGIN no operation and no COMMIT is issued, after a failed
\* COMMIT no result list is returned, and in both cases exactly one
\* ROLLBACK follows and the call raises a QueryExecutionError wrapping the
\* cause of the failed BEGIN or COMMIT.
ControlStatementFailure ==
  \A c \in CallIds :
    LET call == calls[c]
        N == Len(call.operations)
    IN call.kind = "transaction" =>
         /\ (Len(call.stmts) >= 1 /\ call.stmts[1].status = "failed") =>
              /\ Issued(call) = <<"BEGIN", "ROLLBACK">>
              /\ call.ret = <<>>
              /\ call.pc = "done" =>
                   /\ call.status = "raised"
                   /\ call.error.name = "QueryExecutionError"
                   /\ call.error.cause = call.stmts[1].cause
         /\ (Len(call.stmts) >= N + 2 /\ call.stmts[N + 2].text = "COMMIT"
               /\ call.stmts[N + 2].status = "failed") =>
              /\ Len(call.stmts) = N + 3
              /\ call.stmts[N + 3].text = "ROLLBACK"
              /\ call.ret = <<>>
              /\ call.pc = "done" =>
                   /\ call.status = "raised"
                   /\ call.error.name = "QueryExecutionError"
                   /\ call.error.cause = call.stmts[N + 2].cause

\* C10: on an instance whose pool is null (connect() never called) query(),
\* operation() and transaction() raise the 'not connected' DBConnectionError
\* without asking the pool for a client and without issuing a statement.
NotConnectedRaises ==
  \A c \in CallIds :
    LET call == calls[c]
    IN (pool = "null" /\ UsesLease(call)) =>
         /\ call.pc = "done"
         /\ call.status = "raised"
         /\ call.error = DBConnectionError(NotConnectedMessage, "undefined")
         /\ call.leaseReqs = 0
         /\ call.client = 0
         /\ call.stmts = <<>>
         /\ call.releases = 0

\* Witness of C10: a transaction of two operations was called before
\* connect() and has settled.
NotConnectedRaisesWitness ==
  \E c \in CallIds :
    /\ pool = "null"
    /\ calls[c].kind = "transaction"
    /\ Len(calls[c].operations) = 2
    /\ calls[c].pc = "done"

\* C11: when the pool is connected and pool.connect() rejects with E,
\* query() and operation() raise a DBConnectionError whose cause is E and
\* never attempt the statement.
LeaseFailureWrapsCause ==
  \A c \in CallIds :
    LET call == calls[c]
    IN (call.kind \in {"query", "operation"} /\ call.leaseCause # "undefined") =>
         /\ call.pc = "done"
         /\ call.status = "raised"
         /\ call.error.name = "DBConnectionError"
         /\ call.error.cause = call.leaseCause
         /\ call.client = 0
         /\ call.stmts = <<>>
         /\ call.marshalled = <<>>

\* Witness of C11: an operation() on a connected pool was refused a client
\* with cause E2.
LeaseFailureWrapsCauseWitness ==
  \E c \in CallIds :
    /\ calls[c].kind = "operation"
    /\ pool = "open"
    /\ calls[c].leaseCause = "E2"
    /\ calls[c].pc = "done"

\* C12: when the statement of query() or operation() fails with E, the call
\* raises a QueryExecutionError whose cause is E; the statement was issued
\* exactly once (no retry) and no result is returned.
StatementFailureWrapsCause ==
  \A c \in CallIds :
    LET call == calls[c]
    IN (call.kind \in {"query", "operation"}
          /\ \E k \in 1..Len(call.stmts) : call.stmts[k].status = "failed") =>
         /\ Len(call.stmts) = 1
         /\ call.pc = "done"
         /\ call.status = "raised"
         /\ call.error.name = "QueryExecutionError"
         /\ call.error.cause = call.stmts[1].cause
         /\ call.ret = <<>>
         /\ call.marshalled = <<>>

\* Witness of C12: the statement of a query() failed with E2.
StatementFailureWrapsCauseWitness ==
  \E c \in CallIds :
    /\ calls[c].kind = "query"
    /\ Len(calls[c].stmts) = 1
    /\ calls[c].stmts[1].status = "failed"
    /\ calls[c].stmts[1].cause = "E2"
    /\ calls[c].pc = "done"

\* The result the caller is owed for a statement that resolved with
\* pgResult: the marshaller's output when the operation has a marshaller,
\* else the normalised DBResult.
Expected(operation, pgResult) ==
  LET normalized == [rows |-> pgResult.rows, rowCount |-> pgResult.rowCount,
                     fields |-> pgResult.fields]
  IN IF operation.marshaller = "null"
       THEN normalized
       ELSE Marshal(operation.marshaller, normalized).value

\* C13: transaction ordering.  A transaction() of N invocations that
\* returns, returns a list of length N whose element i is the result of
\* invocation i: statement i + 1 on the client is that of operation i, and
\* the element is what Expected gives for the result it resolved with.
TransactionOrdering ==
  \A c \in CallIds :
    LET call == calls[c]
        N == Len(call.operations)
    IN (call.kind = "transaction" /\ call.status = "returned") =>
         /\ Len(call.ret) = N
         /\ Len(call.stmts) = N + 2
         /\ \A i \in 1..N :
              /\ call.stmts[i + 1].text = call.operations[i].operation.statement
              /\ call.stmts[i + 1].status = "ok"
              /\ call.ret[i] =
                   Expected(call.operations[i].operation, call.stmts[i + 1].result)

\* Witness of C13: a transaction of two operations returned two different
\* results, the first a DBResult and the second a marshaller's output.
TransactionOrderingWitness ==
  \E c \in CallIds :
    LET call == calls[c]
    IN /\ call.kind = "transaction"
       /\ call.status = "returned"
       /\ Len(call.operations) = 2
       /\ call.operations[1].operation.marshaller = "null"
       /\ call.operations[2].operation.marshaller = "firstRow"
       /\ call.ret[1] # call.ret[2]

\* C14: an operation() that returns, returns marshaller(normalizedResult)
\* when the operation has a marshaller, the marshaller having been invoked
\* exactly once, on the normalised result of the call's statement; without
\* a marshaller it returns the normalised result and invokes none.
OperationReturnsMarshalled ==
  \A c \in CallIds :
    LET call == calls[c]
    IN (call.kind = "operation" /\ call.status = "returned") =>
         LET pgResult == call.stmts[1].result
             normalized == [rows |-> pgResult.rows, rowCount |-> pgResult.rowCount,
                            fields |-> pgResult.fields]
         IN /\ Len(call.stmts) = 1
            /\ call.stmts[1].status = "ok"
            /\ call.ret = <<Expected(call.operation, pgResult)>>
            /\ call.marshalled =
                 IF call.operation.marshaller = "null" THEN <<>> ELSE <<normalized>>

\* Witness of C14: an operation with the firstRow marshaller returned the
\* first row of a non-empty result.
OperationReturnsMarshalledWitness ==
  \E c \in CallIds :
    LET call == calls[c]
    IN /\ call.kind = "operation"
       /\ call.status = "returned"
       /\ call.operation.marshaller = "firstRow"
       /\ call.ret = <<[by |-> "firstRow", items |-> <<"r1">>]>>

\* C15: in query(), operation() and every operation of transaction() the
\* effective parameters are passed to client.query exactly when they are a
\* non-empty list; null, undefined and the empty list all give the same
\* call without a parameters argument.
ParametersPassedIffNonEmpty ==
  \A c \in CallIds :
    LET call == calls[c]
    IN UsesLease(call) =>
         \A k \in 1..Len(call.stmts) :
           LET stmt == call.stmts[k]
           IN stmt.text \notin ControlStatements =>
                /\ (IsArray(stmt.parameters) /\ Len(stmt.parameters.items) > 0) =>
                     stmt.args = stmt.parameters
                /\ ~(IsArray(stmt.parameters) /\ Len(stmt.parameters.items) > 0) =>
                     stmt.args = NoArgs
                /\ call.kind = "query" =>
                     stmt.parameters =
                       IF IsArray(call.opts.parameters)
                         THEN call.opts.parameters ELSE Null

\* Witness of C15: a query() given an empty parameters list issued its
\* statement without a parameters argument.
ParametersPassedIffNonEmptyWitness ==
  \E c \in CallIds :
    LET call == calls[c]
    IN /\ call.kind = "query"
       /\ call.opts.parameters = Arr(<<>>)
       /\ Len(call.stmts) = 1
       /\ call.stmts[1].args = NoArgs

\* C16: the DBResult a query() returns has rowCount equal to the length of
\* rows, whatever result the driver resolved the statement with (that of a
\* statement that affects rows and returns none included).
QueryRowCountIsRowsLength ==
  \A c \in CallIds :
    LET call == calls[c]
    IN (call.kind = "query" /\ call.status = "returned") =>
         call.ret[1].rowCount = Num(Len(call.ret[1].rows.items))


\* A tunable was supplied: opts is an object and the property is a number.
Supplied(opts, value) == opts.type = "object" /\ value.type = "number"

\* C17: in every PostgresDBConfig, each of maxClients, idleTimeoutMillis and
\* connectionTimeoutMillis is the value supplied in opts when one is
\* supplied (0 included: idleTimeoutMillis = 0 stays 0) and its default
\* (10, 10000, 0) when none is.
TunablesSuppliedOrDefault ==
  db.kind = "config" =>
    /\ db.config.maxClients =
         IF Supplied(db.opts, db.opts.maxClients)
           THEN db.opts.maxClients ELSE Num(10)
    /\ db.config.idleTimeoutMillis =
         IF Supplied(db.opts, db.opts.idleTimeoutMillis)
           THEN db.opts.idleTimeoutMillis ELSE Num(10000)
    /\ db.config.connectionTimeoutMillis =
         IF Supplied(db.opts, db.opts.connectionTimeoutMillis)
           THEN db.opts.connectionTimeoutMillis ELSE Num(0)

\* The vendor is the string "postgres" in some letter case.
IsPostgresAnyCase(v) ==
  LET letters == <<{"p", "P"}, {"o", "O"}, {"s", "S"}, {"t", "T"},
                   {"g", "G"}, {"r", "R"}, {"e", "E"}, {"s", "S"}>>
  IN /\ v.type = "string"
     /\ Len(v.items) = Len(letters)
     /\ \A k \in 1..Len(letters) : v.items[k] \in letters[k]

\* C18: createDB(config) constructs a PostgresDB exactly when config.vendor
\* is the string "postgres" in any letter case, and throws a DBFactoryError
\* (no instance) when the vendor is missing, not a string or another vendor.
\* The instance it returns is not connected: while connect() has not been
\* called every query, operation and transaction on it raises the
\* DBConnectionError "Not connected", and none does after connect().
CreateDBContract ==
  db.by = "createDB" =>
    /\ IF IsPostgresAnyCase(db.vendor)
         THEN /\ db.kind = "db"
              /\ db.error = NoError
              /\ db.instance.hostname = Connection.hostname
              /\ pool # "none"
         ELSE /\ db.kind = "error"
              /\ db.error.name = "DBFactoryError"
              /\ db.instance = NoInstance
              /\ pool = "none"
    /\ \A c \in CallIds :
         LET call == calls[c]
             notConnected == DBConnectionError(NotConnectedMessage, "undefined")
         IN /\ (pool = "null" /\ UsesLease(call)) =>
                 /\ call.pc = "done"
                 /\ call.status = "raised"
                 /\ call.error = notConnected
                 /\ call.stmts = <<>>
            /\ call.error = notConnected => pool = "null"

\* An instance made by createDB from an upper-case vendor, on which an
\* operation() was called before connect() and has raised.
CreateDBContractWitness ==
  \E c \in CallIds :
    /\ db.by = "createDB"
    /\ db.vendor = Str(<<"P", "O", "S", "T", "G", "R", "E", "S">>)
    /\ db.kind = "db"
    /\ pool = "null"
    /\ calls[c].kind = "operation"
    /\ calls[c].status = "raised"

\* BEGIN is the first statement of the call and only the first, and a
\* statement is issued only by a call that holds a client.
BeginFirstOnLease(call) ==
  /\ call.stmts # <<>> => (call.client \in LeaseIds /\ call.leaseReqs = 1)
  /\ \A k \in 1..Len(call.stmts) :
       (call.stmts[k].text = "BEGIN") <=> (k = 1)

\* COMMIT is statement N + 2 of the call: BEGIN and the statements of the
\* N operations, in order, resolved before it, and the marshaller of each
\* operation that has one returned.
CommitOnlyAfterAll(call) ==
  LET N == Len(call.operations)
  IN \A k \in 1..Len(call.stmts) :
       call.stmts[k].text = "COMMIT" =>
         /\ k = N + 2
         /\ call.stmts[1].status = "ok"
         /\ \A i \in 1..N :
              /\ call.stmts[i + 1].text = call.operations[i].operation.statement
              /\ call.stmts[i + 1].status = "ok"
              /\ call.operations[i].operation.marshaller # "null" =>
                   Marshal(call.operations[i].operation.marshaller,
                           unmarshallPgResult(call.stmts[i + 1].result)).ok

\* No ROLLBACK follows a COMMIT that resolved, and no COMMIT follows a
\* ROLLBACK.
CommitRollbackExclusive(call) ==
  \A j, k \in 1..Len(call.stmts) :
    j < k =>
      /\ ~(/\ call.stmts[j].text = "COMMIT"
           /\ call.stmts[j].status = "ok"
           /\ call.stmts[k].text = "ROLLBACK")
      /\ ~(call.stmts[j].text = "ROLLBACK" /\ call.stmts[k].text = "COMMIT")

\* The call returned its results after a COMMIT that resolved, or raised
\* after a ROLLBACK that was issued and has settled.
CommittedOrRolledBack(call) ==
  LET last == call.stmts[Len(call.stmts)]
  IN /\ call.stmts # <<>>
     /\ \/ /\ call.status = "returned"
           /\ last.text = "COMMIT"
           /\ last.status = "ok"
           /\ Len(call.ret) = Len(call.operations)
        \/ /\ call.status = "raised"
           /\ last.text = "ROLLBACK"
           /\ last.status \in {"ok", "failed"}

\* C19 as stated: in every transaction() call BEGIN is the first statement
\* and is issued on the lease, COMMIT is issued only after BEGIN, the N
\* operation statements and their marshallers succeeded, ROLLBACK never
\* follows a successful COMMIT nor COMMIT a ROLLBACK, and every call ends
\* committed or failed after a rollback attempt.
TransactionStateMachineEveryCall ==
  \A c \in CallIds :
    LET call == calls[c]
    IN call.kind = "transaction" =>
         /\ BeginFirstOnLease(call)
         /\ CommitOnlyAfterAll(call)
         /\ CommitRollbackExclusive(call)
         /\ call.pc = "done" => CommittedOrRolledBack(call)

\* C19, amended: the same state machine, where a call that acquired its
\* lease ends committed or failed after a rollback attempt, and a call that
\* acquired none (not connected, or the pool refused the lease) fails with
\* no statement issued.
TransactionStateMachine ==
  \A c \in CallIds :
    LET call == calls[c]
    IN call.kind = "transaction" =>
         /\ BeginFirstOnLease(call)
         /\ CommitOnlyAfterAll(call)
         /\ CommitRollbackExclusive(call)
         /\ call.pc = "done" =>
              IF call.client \in LeaseIds
                THEN CommittedOrRolledBack(call)
                ELSE call.status = "raised" /\ call.stmts = <<>>
         /\ call.pc = "awaitLease" => call.stmts = <<>>

\* Witness of C19: a transaction of two operations whose COMMIT was
\* rejected, so that a ROLLBACK followed it and the call raised.
TransactionStateMachineWitness ==
  \E c \in CallIds :
    LET call == calls[c]
    IN /\ call.kind = "transaction"
       /\ call.pc = "done"
       /\ Len(call.operations) = 2
       /\ Len(call.stmts) = 5
       /\ call.stmts[4].text = "COMMIT"
       /\ call.stmts[4].status = "failed"
       /\ call.stmts[5].text = "ROLLBACK"
       /\ call.status = "raised"

\* At most one pool.connect() per call; every statement of the call was
\* issued on the one client the call acquired, which it holds until it
\* ends.
OnSameLease(call) ==
  /\ call.leaseReqs <= 1
  /\ call.stmts # <<>> => (call.leaseReqs = 1 /\ call.client \in LeaseIds)
  /\ \A k \in 1..Len(call.stmts) : call.stmts[k].client = call.client
  /\ (call.client \in LeaseIds /\ call.pc # "done") => call.client \in leased

\* Every statement but the last issued has completed: statement k + 1 was
\* issued after statement k resolved or was rejected.
OneInFlight(call) ==
  \A k \in 1..Len(call.stmts) :
    k < Len(call.stmts) => call.stmts[k].status \in {"ok", "failed"}

\* C20 as stated: within every transaction() call exactly one lease is
\* acquired, every statement is issued on that lease, and at most one
\* statement is in flight at any time.
TransactionExactlyOneLease ==
  \A c \in CallIds :
    LET call == calls[c]
    IN call.kind = "transaction" =>
         /\ OnSameLease(call)
         /\ OneInFlight(call)
         /\ call.pc = "done" => (call.leaseReqs = 1 /\ call.client \in LeaseIds)

\* C20, amended: a transaction() call requests at most one lease, and
\* exactly one when the DB is connected; every statement it issues is on the
\* one client it acquired, statement i + 1 only after statement i has
\* completed.  A call on an unconnected DB requests none, and one the pool
\* refuses acquires none; neither issues a statement.
TransactionOneLeaseSequential ==
  \A c \in CallIds :
    LET call == calls[c]
    IN call.kind = "transaction" =>
         /\ OnSameLease(call)
         /\ OneInFlight(call)
         /\ call.pc = "done" =>
              \/ call.leaseReqs = 1 /\ call.client \in LeaseIds
              \/ /\ call.client \notin LeaseIds
                 /\ call.stmts = <<>>
                 /\ call.status = "raised"
                 /\ call.leaseReqs = 0 <=>
                      call.error = DBConnectionError(NotConnectedMessage, "undefined")

\* Witness of C20: the statement of the second operation of a transaction
\* is in flight on the client that BEGIN and the first operation used.
TransactionOneLeaseSequentialWitness ==
  \E c \in CallIds :
    LET call == calls[c]
    IN /\ call.kind = "transaction"
       /\ call.pc = "awaitOp"
       /\ Len(call.stmts) = 3
       /\ call.stmts[3].status = "inflight"
       /\ call.stmts[1].client = call.stmts[3].client
       /\ call.client \in leased

\* The call holds the client it was granted: it has not released it.
Holds(call) == call.client \in LeaseIds /\ call.releases = 0

\* C21: in every interleaving of query(), operation() and transaction()
\* calls no client is held by two calls at once: a call that holds a client
\* has it checked out of the pool, every statement of a call was issued on
\* the client that call was granted and while it held it, and two calls
\* that hold clients hold different ones; so no statement of another call
\* is issued on a transaction's client between its BEGIN and the release
\* that follows its COMMIT or ROLLBACK.
NoSharedLease ==
  \A c \in CallIds :
    LET call == calls[c]
    IN /\ Holds(call) => call.client \in leased
       /\ \A k \in 1..Len(call.stmts) :
            /\ call.stmts[k].client = call.client
            /\ call.stmts[k].client \in LeaseIds
            /\ call.stmts[k].released = 0
       /\ \A d \in CallIds \ {c} :
            (Holds(call) /\ Holds(calls[d])) => call.client # calls[d].client
       /\ \A d \in CallIds \ {c} : \A k \in 1..Len(calls[d].stmts) :
            (Holds(call) /\ calls[d].stmts[k].status = "inflight") =>
              calls[d].stmts[k].client # call.client

\* Witness of C21: a transaction has begun and waits for its operation's
\* statement while a query() of the other caller has its statement in
\* flight on another client.
NoSharedLeaseWitness ==
  \E c, d \in CallIds :
    /\ calls[c].kind = "transaction"
    /\ calls[c].pc = "awaitOp"
    /\ calls[d].kind = "query"
    /\ calls[d].pc = "awaitQuery"
    /\ calls[d].stmts[1].status = "inflight"

\* The descriptor as it was constructed: each statement names one.
Original(operation) ==
  CHOOSE o \in Operations : o.statement = operation.statement

\* What an execution is to hand to client.query: the override when one is
\* given, the stored parameters of the descriptor as constructed otherwise;
\* nothing when those are null, undefined or empty.
OverrideOrStored(operation, override) ==
  LET parameters ==
        IF IsArray(override) THEN override ELSE Original(operation).parameters
  IN IF IsArray(parameters) /\ parameters.items # <<>>
       THEN parameters ELSE NoArgs

\* C22: query(), operation() and transaction() leave this.pool and the
\* DBOperation descriptors they are given as they were (a call that went on
\* to request a lease still finds the pool, a descriptor a call holds is
\* the descriptor as constructed), so every execution of a descriptor, by
\* operation() or as an element of transaction(), runs with the override it
\* is given, and with the stored parameters when it is given none.
DescriptorsUnchangedOverridesApply ==
  \A c \in CallIds :
    LET call == calls[c]
    IN /\ (UsesLease(call) /\ call.leaseReqs > 0) => pool # "null"
       /\ call.kind = "operation" =>
            /\ call.operation \in Operations
            /\ call.stmts # <<>> =>
                 call.stmts[1].args =
                   OverrideOrStored(call.operation, call.opts.parameters)
       /\ call.kind = "transaction" =>
            \A i \in 1..Len(call.operations) :
              /\ call.operations[i].operation \in Operations
              /\ (Len(call.stmts) >= i + 1
                    /\ call.stmts[i + 1].text \notin ControlStatements) =>
                   call.stmts[i + 1].args =
                     OverrideOrStored(call.operations[i].operation,
                                      call.operations[i].parameters)

\* C23: no use after release.  In query(), operation() and transaction() no
\* statement is issued on a client the call has released, the client is
\* released at most once and with no statement in flight, and in
\* transaction() only once COMMIT has resolved or the ROLLBACK attempt has
\* settled, resolved or rejected.
NoUseAfterRelease ==
  \A c \in CallIds :
    LET call == calls[c]
        last == call.stmts[Len(call.stmts)]
    IN UsesLease(call) =>
         /\ \A k \in 1..Len(call.stmts) : call.stmts[k].released = 0
         /\ call.releases <= 1
         /\ call.releases = 1 =>
              /\ call.stmts # <<>>
              /\ \A k \in 1..Len(call.stmts) :
                   call.stmts[k].status \in {"ok", "failed"}
         /\ (call.kind = "transaction" /\ call.releases = 1) =>
              \/ last.text = "COMMIT" /\ last.status = "ok"
              \/ last.text = "ROLLBACK" /\ last.status \in {"ok", "failed"}

\* Witness of C23: a transaction whose ROLLBACK was rejected has released
\* its client, once, after the three statements it issued.
NoUseAfterReleaseWitness ==
  \E c \in CallIds :
    LET call == calls[c]
    IN /\ call.kind = "transaction"
       /\ Len(call.stmts) = 3
       /\ call.stmts[3].text = "ROLLBACK"
       /\ call.stmts[3].status = "failed"
       /\ call.releases = 1

\* C24: a connect() that fails raises a DBConnectionError and leaves
\* this.pool set: the pool it created, which has had no client yet.  A
\* query(), operation() or transaction() called on that pool does not raise
\* the "Not connected" error; it calls pool.connect() for a lease.
FailedConnectKeepsPool ==
  \A c \in CallIds :
    LET call == calls[c]
    IN /\ (call.kind = "connect" /\ call.status = "raised") =>
            /\ call.error.name = "DBConnectionError"
            /\ call.error.message = "Database unavailable"
            /\ pool = "empty"
       /\ (pool = "empty" /\ UsesLease(call)) =>
            /\ call.leaseReqs = 1
            /\ call.error # DBConnectionError(NotConnectedMessage, "undefined")

\* Witness of C24: connect() has failed (the pool has had no client) and a
\* transaction() called after it waits for its lease.
FailedConnectKeepsPoolWitness ==
  \E c \in CallIds :
    /\ pool = "empty"
    /\ calls[c].kind = "transaction"
    /\ calls[c].pc = "awaitLease"
    /\ calls[c].leaseReqs = 1

\* C25: disconnect() ends the pool and leaves this.pool set.  A query(),
\* operation() or transaction() called after it does not raise the "Not
\* connected" error: it asks the ended pool for a lease, which the pool
\* refuses.  disconnect() on an instance that was never connected throws
\* a TypeError, not a DBConnectionError.
DisconnectKeepsPool ==
  \A c \in CallIds :
    LET call == calls[c]
    IN /\ (call.kind = "disconnect" /\ call.pc \in {"awaitEnd", "done"}
             /\ call.error # RawError("TypeError")) => pool = "ended"
       /\ (pool = "ended" /\ UsesLease(call)) =>
            /\ call.leaseReqs = 1
            /\ call.stmts = <<>>
            /\ call.error # DBConnectionError(NotConnectedMessage, "undefined")
            /\ call.pc = "done" =>
                 (call.status = "raised" /\ call.leaseCause \in Causes)
       /\ (pool = "null" /\ call.kind = "disconnect") =>
            /\ call.status = "raised"
            /\ call.error = RawError("TypeError")
            /\ call.error.name # "DBConnectionError"

\* Witness of C25: after connect() and disconnect() a query() asked the
\* ended pool for a lease and raised the error of a refused lease.
DisconnectKeepsPoolWitness ==
  \E c \in CallIds :
    /\ pool = "ended"
    /\ calls[c].kind = "query"
    /\ calls[c].status = "raised"
    /\ calls[c].error.message = "Database unavailable"

\* The operation of a transaction whose marshaller was invoked last (its
\* statement is the last one issued by then, after BEGIN).
LastMarshalledOperation(call) ==
  call.marshalledAt[Len(call.marshalledAt)].stmts - 1

\* The marshaller a transaction invoked last threw.
TransactionMarshallerThrew(call) ==
  /\ call.kind = "transaction"
  /\ Len(call.marshalled) > 0
  /\ ~Marshal(call.operations[LastMarshalledOperation(call)].operation.marshaller,
              call.marshalled[Len(call.marshalled)]).ok

\* C26: in operation() the marshaller is invoked after the client was
\* released.  In transaction() each marshaller is invoked while the client
\* is held and inside the transaction (after BEGIN and the statement of its
\* operation, before any COMMIT or ROLLBACK); when the marshaller of
\* operation k throws, the statements issued are BEGIN, those of operations
\* 1..k and exactly one ROLLBACK: no later operation and no COMMIT.
MarshallerAndLease ==
  \A c \in CallIds :
    LET call == calls[c]
        n == Len(call.marshalledAt)
    IN /\ Len(call.marshalled) = n
       /\ call.kind = "operation" =>
            \A m \in 1..n :
              /\ call.marshalledAt[m].releases = 1
              /\ call.marshalledAt[m].stmts = 1
              /\ call.stmts[1].status = "ok"
       /\ call.kind = "transaction" =>
            /\ \A m \in 1..n :
                 LET at == call.marshalledAt[m]
                 IN /\ at.releases = 0
                    /\ at.stmts >= 2
                    /\ call.stmts[1].text = "BEGIN"
                    /\ call.stmts[at.stmts].status = "ok"
                    /\ call.operations[at.stmts - 1].operation.marshaller # "null"
                    /\ \A j \in 1..at.stmts :
                         call.stmts[j].text \notin {"COMMIT", "ROLLBACK"}
            /\ TransactionMarshallerThrew(call) =>
                 LET k == LastMarshalledOperation(call)
                 IN /\ Issued(call) =
                         <<"BEGIN">>
                           \o [i \in 1..k |-> call.operations[i].operation.statement]
                           \o <<"ROLLBACK">>
                    /\ call.pc = "done" => call.status = "raised"

\* Witness of C26: the marshaller of the first of two operations of a
\* transaction threw, and the call has ended.
MarshallerAndLeaseWitness ==
  \E c \in CallIds :
    LET call == calls[c]
    IN /\ call.kind = "transaction"
       /\ Len(call.operations) = 2
       /\ TransactionMarshallerThrew(call)
       /\ Len(call.marshalled) = 1
       /\ Len(call.stmts) = 3
       /\ call.pc = "done"

\* transaction([]) on an instance that connect() has connected.
EmptyTransaction(call) ==
  call.kind = "transaction" /\ call.operations = <<>> /\ pool = "open"

\* C28 as stated: a transaction() with an empty list on a connected
\* instance issues exactly BEGIN then COMMIT on one client and no ROLLBACK,
\* releases the client once and returns an empty list.
EmptyTransactionCommits ==
  \A c \in CallIds :
    LET call == calls[c]
    IN EmptyTransaction(call) =>
         /\ \A k \in 1..Len(call.stmts) :
              /\ call.stmts[k].text # "ROLLBACK"
              /\ call.stmts[k].client = call.stmts[1].client
         /\ call.pc = "done" =>
              /\ Issued(call) = <<"BEGIN", "COMMIT">>
              /\ call.releases = 1
              /\ call.status = "returned"
              /\ call.ret = <<>>

\* C28, amended: such a call whose lease is granted and whose BEGIN and
\* COMMIT resolve issues exactly BEGIN then COMMIT on one client and no
\* ROLLBACK, releases the client once and returns an empty list.  When
\* BEGIN or COMMIT is rejected, one ROLLBACK follows the rejected statement
\* on the same client, the client is released once and the call raises;
\* when the lease is refused the call issues nothing, releases nothing and
\* raises.
EmptyTransactionOutcomes ==
  \A c \in CallIds :
    LET call == calls[c]
        n == Len(call.stmts)
        rejected == {k \in 1..n : call.stmts[k].text # "ROLLBACK"
                                   /\ call.stmts[k].status = "failed"}
    IN (EmptyTransaction(call) /\ call.pc = "done") =>
         /\ \A k \in 1..n : call.stmts[k].client = call.client
         /\ IF call.client \notin LeaseIds
              THEN /\ call.stmts = <<>>
                   /\ call.releases = 0
                   /\ call.status = "raised"
              ELSE IF rejected = {}
                THEN /\ Issued(call) = <<"BEGIN", "COMMIT">>
                     /\ call.releases = 1
                     /\ call.status = "returned"
                     /\ call.ret = <<>>
                ELSE /\ Issued(call) \in {<<"BEGIN", "ROLLBACK">>,
                                          <<"BEGIN", "COMMIT", "ROLLBACK">>}
                     /\ rejected = {n - 1}
                     /\ call.releases = 1
                     /\ call.status = "raised"

\* Witness of C28: a transaction() with an empty list returned an empty
\* list after BEGIN and COMMIT.
EmptyTransactionOutcomesWitness ==
  \E c \in CallIds :
    LET call == calls[c]
    IN /\ EmptyTransaction(call)
       /\ call.status = "returned"
       /\ Issued(call) = <<"BEGIN", "COMMIT">>
       /\ call.ret = <<>>

\* The clients held by the calls in progress.
HeldClients == {calls[c].client : c \in {d \in CallIds : Holds(calls[d])}}

\* At most M clients are checked out; a call asks for a lease at most once
\* and while it holds none, holds at most the one client it was granted,
\* and has released it when it ends; every client checked out is held by a
\* call in progress.
LeasesBounded ==
  /\ Cardinality(leased) <= PoolMax
  /\ leased = HeldClients
  /\ \A c \in CallIds :
       LET call == calls[c]
       IN /\ call.leaseReqs <= 1
          /\ call.pc = "awaitLease" => call.client \notin LeaseIds
          /\ call.pc = "done" => ~Holds(call)
          /\ call.releases <= 1

\* The call of caller c is in progress.
InProgress(c) == calls[c].pc \notin {"idle", "done"}

\* C27: with a pool of M clients and overlapping query(), operation() and
\* transaction() calls, no more than M clients are ever checked out, no
\* call asks for a lease while it holds one or holds more than one, and, the
\* driver answering every statement and every lease request on a pool with
\* a free client, every call ends (returns or raises) with its client back
\* in the pool.
BoundedLeasesAndTermination ==
  /\ []LeasesBounded
  /\ \A c \in CallIds :
       InProgress(c) ~>
         (calls[c].pc = "done" /\ calls[c].status \in {"returned", "raised"}
            /\ ~Holds(calls[c]))

\* Witness of C27: the pool has one client, a transaction holds it and the
\* call of the other caller waits for its lease.
BoundedLeasesAndTerminationWitness ==
  \E c, d \in CallIds :
    /\ PoolMax = 1
    /\ calls[c].kind = "transaction"
    /\ calls[c].pc = "awaitOp"
    /\ leased = {calls[c].client}
    /\ calls[d].kind = "operation"
    /\ calls[d].pc = "awaitLease"

=============================================================================
